---------------------------- MODULE Spec2Model ----------------------------
(***************************************************************************)
(* A model of pytest-html's BaseReport (src/pytest_html/basereport.py):    *)
(* the lifecycle handlers that pytest calls on the report plugin, and the  *)
(* module-level helper functions they use.                                 *)
(*                                                                         *)
(* Text is modelled as a sequence of one-character strings, so that        *)
(* formatting, slicing, escaping and matching are computed character by    *)
(* character.  A duration (a float number of seconds in the source) is an  *)
(* integer number of milliseconds.                                         *)
(***************************************************************************)
EXTENDS Integers, Sequences, FiniteSets, TLC

VARIABLES
    runner,     \* the host runner's position: "idle", "running" or "done"
    delivered,  \* the events the runner has delivered, in order, each with what
                \* the collaborators answered while it was handled
    data,       \* self._report.data, the report data model
    written,    \* every report written to the file, in order; the last is its content
    hookCalls,  \* number of calls made to each collaborator
    applied     \* the helper function applied: its arguments and its result

vars == <<runner, delivered, data, written, hookCalls, applied>>

lifecycleVars == <<runner, delivered, data, written, hookCalls>>

-----------------------------------------------------------------------------
(* Bounds of the model. *)

\* per-test-report, collection-finish and terminal-summary events per session
MaxEvents == 3

\* whole hours in the durations given to _format_duration
MaxHours == 2

\* characters of a test id given to _asset_filename
MaxIdLen == 3

\* largest configured max_asset_filename_length
MaxNameLen == 12

\* entries of environment_table_redact_list
MaxPatterns == 2

\* sections of a report given to _process_logs
MaxSections == 2

-----------------------------------------------------------------------------
(* Text and numbers, as Python computes them. *)

Digits == <<"0", "1", "2", "3", "4", "5", "6", "7", "8", "9">>

\* str(n) of an int n >= 0
RECURSIVE str_int(_)
str_int(n) ==
    IF n < 10 THEN <<Digits[n + 1]>>
    ELSE str_int(n \div 10) \o <<Digits[(n % 10) + 1]>>

\* format(n, "02d") of an int n >= 0: at least two digits, zero filled
format_02d(n) ==
    IF Len(str_int(n)) < 2 THEN <<"0">> \o str_int(n) ELSE str_int(n)

\* math.floor(num / den), num >= 0, den > 0
math_floor(num, den) == num \div den

\* round(num / den), num >= 0, den > 0: Python rounds a tie to the even integer
round(num, den) ==
    LET q == num \div den
        r == num % den
    IN  IF 2 * r < den THEN q
        ELSE IF 2 * r > den THEN q + 1
        ELSE IF q % 2 = 0 THEN q ELSE q + 1

\* a number of seconds, in the model's unit
Seconds(s) == s * 1000

\* _format_duration with the minutes taken from the whole duration, not from
\* what the hours leave
_format_duration_minutes_of_total(duration) ==
    IF duration < Seconds(1)
    THEN str_int(round(duration, 1)) \o <<" ", "m", "s">>
    ELSE LET hours == math_floor(duration, Seconds(3600))
             remaining_seconds == duration % Seconds(3600)
             minutes == math_floor(duration, Seconds(60))
             remaining == remaining_seconds % Seconds(60)
             seconds == round(remaining, Seconds(1))
         IN  format_02d(hours) \o <<":">> \o format_02d(minutes)
                 \o <<":">> \o format_02d(seconds)

_format_duration(duration) ==
    IF duration < Seconds(1)
    THEN str_int(round(duration, 1)) \o <<" ", "m", "s">>
    ELSE LET hours == math_floor(duration, Seconds(3600))
             remaining_seconds == duration % Seconds(3600)
             minutes == math_floor(remaining_seconds, Seconds(60))
             remaining == remaining_seconds % Seconds(60)
             seconds == round(remaining, Seconds(1))
         IN  format_02d(hours) \o <<":">> \o format_02d(minutes)
                 \o <<":">> \o format_02d(seconds)

Lower == <<"a", "b", "c", "d", "e", "f", "g", "h", "i", "j", "k", "l", "m",
           "n", "o", "p", "q", "r", "s", "t", "u", "v", "w", "x", "y", "z">>

Upper == <<"A", "B", "C", "D", "E", "F", "G", "H", "I", "J", "K", "L", "M",
           "N", "O", "P", "Q", "R", "S", "T", "U", "V", "W", "X", "Y", "Z">>

Range(s) == {s[i] : i \in DOMAIN s}

\* the position of c in alphabet a, 0 when it is not there
IndexIn(a, c) == IF c \in Range(a) THEN CHOOSE i \in DOMAIN a : a[i] = c ELSE 0

ToUpper(c) == IF c \in Range(Lower) THEN Upper[IndexIn(Lower, c)] ELSE c

ToLower(c) == IF c \in Range(Upper) THEN Lower[IndexIn(Upper, c)] ELSE c

\* str.capitalize(): the first character upper-cased, the others lower-cased
capitalize(s) ==
    [i \in DOMAIN s |-> IF i = 1 THEN ToUpper(s[i]) ELSE ToLower(s[i])]

\* s[start:], a Python slice with a possibly negative start
SliceFrom(s, start) ==
    LET n == Len(s)
        from == IF start < 0 THEN (IF start + n < 0 THEN 0 ELSE start + n)
                ELSE (IF start > n THEN n ELSE start)
    IN  SubSeq(s, from + 1, n)

\* sub in s, for two texts
Contains(sub, s) ==
    \E i \in 0..(Len(s) - Len(sub)) : SubSeq(s, i + 1, i + Len(sub)) = sub

\* the concatenation of a sequence of texts
RECURSIVE Flatten(_)
Flatten(ss) == IF ss = <<>> THEN <<>> ELSE Head(ss) \o Flatten(Tail(ss))

\* s.replace(c, by), for a character c and a text by
replace(s, c, by) == Flatten([i \in DOMAIN s |-> IF s[i] = c THEN by ELSE <<s[i]>>])

\* n copies of the character c
Repeat(c, n) == [i \in 1..n |-> c]

\* format(s, fill + "^" + width): s centred, the odd filler on the right
Center(s, fill, width) ==
    IF Len(s) >= width THEN s
    ELSE LET padding == width - Len(s)
             left == padding \div 2
         IN  Repeat(fill, left) \o s \o Repeat(fill, padding - left)

\* \w of a str pattern (the letters, digits and underscore of this model's alphabet)
IsWordChar(c) == c \in Range(Lower) \cup Range(Upper) \cup Range(Digits) \cup {"_"}

\* re.sub(r"[^\w.]", "_", s)
re_sub_non_word(s) ==
    [i \in DOMAIN s |-> IF IsWordChar(s[i]) \/ s[i] = "." THEN s[i] ELSE "_"]

\* re.match(pattern, string): a match starting at the start of string, which
\* need not reach its end.  A pattern is a sequence of atoms: ".*" (any
\* characters), "." (one character) or a literal character.
RECURSIVE re_match(_, _)
re_match(pattern, string) ==
    IF pattern = <<>> THEN TRUE
    ELSE IF Head(pattern) = ".*"
    THEN \E k \in 0..Len(string) :
            re_match(Tail(pattern), SubSeq(string, k + 1, Len(string)))
    ELSE /\ string # <<>>
         /\ Head(pattern) = "." \/ Head(pattern) = Head(string)
         /\ re_match(Tail(pattern), Tail(string))

-----------------------------------------------------------------------------
(* The module-level helpers and the methods of BaseReport that compute. *)

when_setup == <<"s", "e", "t", "u", "p">>
when_call == <<"c", "a", "l", "l">>
when_teardown == <<"t", "e", "a", "r", "d", "o", "w", "n">>

passed == <<"p", "a", "s", "s", "e", "d">>
failed == <<"f", "a", "i", "l", "e", "d">>
skipped == <<"s", "k", "i", "p", "p", "e", "d">>
rerun == <<"r", "e", "r", "u", "n">>

_is_error(report) ==
    report.when \in {when_setup, when_teardown} /\ report.outcome = failed

\* _process_outcome with wasxfail looked at before _is_error
_process_outcome_xfail_first(report) ==
    IF report.wasxfail /\ report.outcome \in {passed, failed}
    THEN <<"X", "P", "a", "s", "s", "e", "d">>
    ELSE IF report.wasxfail /\ report.outcome = skipped
    THEN <<"X", "F", "a", "i", "l", "e", "d">>
    ELSE IF _is_error(report) THEN <<"E", "r", "r", "o", "r">>
    ELSE capitalize(report.outcome)

\* report.wasxfail is TRUE when the report has the attribute wasxfail
_process_outcome(report) ==
    IF _is_error(report) THEN <<"E", "r", "r", "o", "r">>
    ELSE IF report.wasxfail /\ report.outcome \in {passed, failed}
    THEN <<"X", "P", "a", "s", "s", "e", "d">>
    ELSE IF report.wasxfail /\ report.outcome = skipped
    THEN <<"X", "F", "a", "i", "l", "e", "d">>
    ELSE capitalize(report.outcome)

NoLogOutput ==
    <<"N", "o", " ", "l", "o", "g", " ", "o", "u", "t", "p", "u", "t", " ",
      "c", "a", "p", "t", "u", "r", "e", "d", ".">>

BannerWidth == 80

\* the entries one section adds to the log: its banner and content, and the
\* blank entries that follow a log section
SectionEntries(section) ==
    LET header == section[1]
        content == section[2]
    IN  <<Center(<<" ">> \o header \o <<" ">>, "-", BannerWidth)
              \o <<"\n">> \o content>>
        \o (IF Contains(<<"l", "o", "g">>, header) THEN <<<<>>>> ELSE <<>>)
        \o (IF Contains(<<"l", "o", "g">>, header)
               /\ Contains(<<"c", "a", "l", "l">>, header)
            THEN <<<<>>>> ELSE <<>>)

\* _process_logs with the sections of a rerun kept
_process_logs_rerun_sections(report) ==
    LET log1 == IF report.longreprtext # <<>>
                THEN <<replace(replace(report.longreprtext,
                                       "<", <<"&", "l", "t", ";">>),
                               ">", <<"&", "g", "t", ";">>) \o <<"\n">>>>
                ELSE <<>>
        log2 == log1 \o Flatten([i \in DOMAIN report.sections |->
                                    SectionEntries(report.sections[i])])
    IN  IF log2 = <<>> THEN <<NoLogOutput>> ELSE log2

_process_logs(report) ==
    LET log1 == IF report.longreprtext # <<>>
                THEN <<replace(replace(report.longreprtext,
                                       "<", <<"&", "l", "t", ";">>),
                               ">", <<"&", "g", "t", ";">>) \o <<"\n">>>>
                ELSE <<>>
        log2 == IF report.outcome # rerun
                THEN log1 \o Flatten([i \in DOMAIN report.sections |->
                                         SectionEntries(report.sections[i])])
                ELSE log1
    IN  IF log2 = <<>> THEN <<NoLogOutput>> ELSE log2

\* self is the report's configuration: its max_asset_filename_length
_asset_filename(self, test_id, extra_index, test_index, file_extension) ==
    SliceFrom(re_sub_non_word(test_id) \o <<"_">> \o str_int(extra_index)
                  \o <<"_">> \o str_int(test_index) \o <<".">> \o file_extension,
              0 - self._max_asset_filename_length)

\* U+2593, chr(black_box_ascii_value)
black_box == "U+2593"

\* str(value) of a metadata value, which is a text or an int
str(value) == IF value.type = "int" THEN str_int(value.v) ELSE value.v

\* _is_redactable_environment_variable returning False inside the loop, after
\* the first pattern
_is_redactable_first_only(redactable_regexes, environment_variable) ==
    /\ redactable_regexes # <<>>
    /\ re_match(redactable_regexes[1], environment_variable)

_is_redactable_environment_variable(redactable_regexes, environment_variable) ==
    \E i \in DOMAIN redactable_regexes :
        re_match(redactable_regexes[i], environment_variable)

\* metadata is a mapping from keys (texts) to values
_generate_environment(redactable_regexes, metadata) ==
    [key \in DOMAIN metadata |->
        IF _is_redactable_environment_variable(redactable_regexes, key)
        THEN [type |-> "str", v |-> Repeat(black_box, Len(str(metadata[key])))]
        ELSE metadata[key]]

-----------------------------------------------------------------------------
(* The helper functions applied to arguments drawn from bounded sets: one    *)
(* function is applied to one argument, and the result is kept.             *)

NoCall == [fn |-> "none"]

\* durations at millisecond resolution: around each whole second, minute and hour
Durations ==
    {Seconds(3600 * h + 60 * m + s) + f :
        h \in 0..MaxHours, m \in {0, 1, 30, 59}, s \in {0, 1, 2, 5, 58, 59},
        f \in {0, 1, 400, 499, 500, 501, 999}}

Call_format_duration(d) ==
    /\ applied' = [fn |-> "_format_duration", duration |-> d,
                   ret |-> _format_duration(d)]
    /\ UNCHANGED lifecycleVars

Phases == {when_setup, when_call, when_teardown}

Outcomes == {passed, failed, skipped, rerun}

Call_process_outcome(report) ==
    /\ applied' = [fn |-> "_process_outcome", report |-> report,
                   ret |-> _process_outcome(report)]
    /\ UNCHANGED lifecycleVars

\* the texts of at most n characters of the set chars
TextsUpTo(chars, n) == UNION {[1..k -> chars] : k \in 0..n}

\* characters of a node id: word characters, the dot, and others
IdChars == {"t", "_", ".", "/", "["}

Extensions == {<<"p", "n", "g">>, <<"t", "x", "t">>}

Call_asset_filename(self, test_id, extra_index, test_index, file_extension) ==
    /\ applied' = [fn |-> "_asset_filename", self |-> self, test_id |-> test_id,
                   extra_index |-> extra_index, test_index |-> test_index,
                   file_extension |-> file_extension,
                   ret |-> _asset_filename(self, test_id, extra_index,
                                           test_index, file_extension)]
    /\ UNCHANGED lifecycleVars

\* the metadata keys and values, and the patterns of the redact list
MetadataKeys == {<<"K", "E", "Y">>, <<"M", "Y", "_", "K", "E", "Y">>, <<"K">>}

MetadataValues ==
    {[type |-> "str", v |-> <<"a", "b", "c", "1", "2", "3">>],
     [type |-> "str", v |-> <<>>],
     [type |-> "int", v |-> 4021]}

Patterns ==
    {<<"K", "E", "Y">>, <<"K", ".*">>, <<".*", "Y">>, <<"M", ".", "_">>, <<"X">>}

RedactLists == UNION {[1..k -> Patterns] : k \in 0..MaxPatterns}

Metadatas == UNION {[keys -> MetadataValues] : keys \in SUBSET MetadataKeys}

Call_generate_environment(redactable_regexes, metadata) ==
    /\ applied' = [fn |-> "_generate_environment",
                   redactable_regexes |-> redactable_regexes,
                   metadata |-> metadata,
                   ret |-> _generate_environment(redactable_regexes, metadata)]
    /\ UNCHANGED lifecycleVars

LongReprTexts == {<<>>, <<"E">>, <<"a", "<", "b", ">">>, NoLogOutput}

Sections ==
    {<<<<"o", "u", "t">>, <<"x">>>>,
     <<<<"l", "o", "g", " ", "c", "a", "l", "l">>, <<"y">>>>,
     <<<<"l", "o", "g", " ", "s", "e", "t", "u", "p">>, <<>>>>}

SectionLists == UNION {[1..k -> Sections] : k \in 0..MaxSections}

Call_process_logs(report) ==
    /\ applied' = [fn |-> "_process_logs", report |-> report,
                   ret |-> _process_logs(report)]
    /\ UNCHANGED lifecycleVars

\* each helper applied once, to any of its arguments
Apply_format_duration ==
    /\ applied = NoCall
    /\ \E d \in Durations : Call_format_duration(d)

Apply_process_outcome ==
    /\ applied = NoCall
    /\ \E when \in Phases, outcome \in Outcomes, wasxfail \in BOOLEAN :
          Call_process_outcome([when |-> when, outcome |-> outcome,
                                wasxfail |-> wasxfail])

Apply_asset_filename ==
    /\ applied = NoCall
    /\ \E n \in 0..MaxNameLen, test_id \in TextsUpTo(IdChars, MaxIdLen),
          extra_index \in {0, 10}, test_index \in {0, 1},
          file_extension \in Extensions :
          Call_asset_filename([_max_asset_filename_length |-> n], test_id,
                              extra_index, test_index, file_extension)

Apply_generate_environment ==
    /\ applied = NoCall
    /\ \E redactable_regexes \in RedactLists, metadata \in Metadatas :
          Call_generate_environment(redactable_regexes, metadata)

Apply_process_logs ==
    /\ applied = NoCall
    /\ \E longreprtext \in LongReprTexts, outcome \in {passed, failed, rerun},
          sections \in SectionLists :
          Call_process_logs([longreprtext |-> longreprtext, outcome |-> outcome,
                             sections |-> sections])

FnNext ==
    \/ Apply_format_duration
    \/ Apply_process_outcome
    \/ Apply_asset_filename
    \/ Apply_generate_environment
    \/ Apply_process_logs

-----------------------------------------------------------------------------
(* The session: the data model, the collaborators and the lifecycle handlers. *)

\* self._report_path.name
report_path_name == <<"r", ".", "h", "t", "m", "l">>

\* the header cells the data model starts with
default_headers == <<"Result", "Test", "Duration", "Links">>

\* the data model a session starts with
InitData ==
    [title |-> report_path_name,
     environment |-> [key \in {} |-> <<>>],
     resultsTableHeader |-> default_headers,
     additionalSummary |-> [prefix |-> <<>>, summary |-> <<>>, postfix |-> <<>>],
     totalDuration |-> [total |-> 0, formatted |-> <<>>],
     runningState |-> "NotStarted",
     collectedItems |-> 0,
     tests |-> <<>>]

\* self._report.set_data(key, value)
set_data(d, key, value) == [d EXCEPT ![key] = value]

\* the session's configuration: config.stash[metadata_key] and the ini value
\* environment_table_redact_list
SessionMetadata ==
    [key \in {<<"K", "E", "Y">>, <<"P", "y">>} |->
        IF key = <<"K", "E", "Y">> THEN [type |-> "str", v |-> <<"s", "3">>]
        ELSE [type |-> "int", v |-> 3]]

SessionRedactList == <<<<"K", ".*">>>>

\* the titles pytest_html_report_title may leave in report.title
Titles == {report_path_name, <<"T">>}

\* the fragments pytest_html_results_summary may leave in summary
Summaries == {<<>>, <<"<p>note</p>">>}

\* the reports the runner delivers
SessionReports ==
    {[nodeid |-> <<"t", "1">>, when |-> when_call, outcome |-> passed,
      wasxfail |-> FALSE, duration |-> 500, longreprtext |-> <<>>,
      sections |-> <<>>],
     [nodeid |-> <<"t", "2">>, when |-> when_setup, outcome |-> failed,
      wasxfail |-> FALSE, duration |-> Seconds(65), longreprtext |-> <<"E">>,
      sections |-> <<>>],
     [nodeid |-> <<"t", "1">>, when |-> when_teardown, outcome |-> passed,
      wasxfail |-> FALSE, duration |-> 0, longreprtext |-> <<>>,
      sections |-> <<<<<<"o", "u", "t">>, <<"x">>>>>>]}

NoReport ==
    [nodeid |-> <<>>, when |-> <<>>, outcome |-> <<>>, wasxfail |-> FALSE,
     duration |-> 0, longreprtext |-> <<>>, sections |-> <<>>]

\* what add_test may do with a row: append it or not, call it reportable or not
AddTestPolicies == [append : BOOLEAN, reportable : BOOLEAN]

NoPolicy == [append |-> FALSE, reportable |-> FALSE]

\* every cell of the model is a str, which _fix_py keeps as it is
_fix_py(cells) == [i \in DOMAIN cells |-> cells[i]]

\* the arguments _generate_report gives to _render_html, which make the report
_render_html(d) ==
    [test_data |-> d,
     table_head |-> d.resultsTableHeader,
     prefix |-> d.additionalSummary.prefix,
     summary |-> d.additionalSummary.summary,
     postfix |-> d.additionalSummary.postfix]

\* _generate_report: the report rendered from d and written to the file
_generate_report(file, d) == Append(file, _render_html(d))

Event(event, report, cleared, policy) ==
    [event |-> event, report |-> report, cleared |-> cleared, policy |-> policy]

\* the events delivered between session start and session finish, and the
\* terminal summaries
NumEvents ==
    Cardinality({i \in DOMAIN delivered :
                    delivered[i].event \notin {"sessionstart", "sessionfinish"}})

pytest_sessionstart(title) ==
    /\ runner = "idle"
    /\ runner' = "running"
    /\ LET d1 == set_data(data, "environment",
                          _generate_environment(SessionRedactList, SessionMetadata))
           d2 == set_data(d1, "title", title)
           d3 == set_data(d2, "resultsTableHeader", _fix_py(d2.resultsTableHeader))
           d4 == set_data(d3, "runningState", "Started")
       IN  /\ data' = d4
           /\ written' = _generate_report(written, d4)
    /\ delivered' = Append(delivered, Event("sessionstart", NoReport, FALSE, NoPolicy))
    /\ UNCHANGED <<hookCalls, applied>>

\* pytest_sessionfinish without the set_data of runningState
pytest_sessionfinish_state_kept(summary) ==
    /\ runner = "running"
    /\ runner' = "done"
    /\ LET d1 == [data EXCEPT !.additionalSummary.summary = summary]
       IN  /\ data' = d1
           /\ written' = _generate_report(written, d1)
    /\ delivered' = Append(delivered, Event("sessionfinish", NoReport, FALSE, NoPolicy))
    /\ UNCHANGED <<hookCalls, applied>>

\* pytest_sessionfinish with the report generated before runningState is set
pytest_sessionfinish_report_first(summary) ==
    /\ runner = "running"
    /\ runner' = "done"
    /\ LET d1 == [data EXCEPT !.additionalSummary.summary = summary]
           d2 == set_data(d1, "runningState", "Finished")
       IN  /\ data' = d2
           /\ written' = _generate_report(written, d1)
    /\ delivered' = Append(delivered, Event("sessionfinish", NoReport, FALSE, NoPolicy))
    /\ UNCHANGED <<hookCalls, applied>>

pytest_sessionfinish(summary) ==
    /\ runner = "running"
    /\ runner' = "done"
    /\ LET d1 == [data EXCEPT !.additionalSummary.summary = summary]
           d2 == set_data(d1, "runningState", "Finished")
       IN  /\ data' = d2
           /\ written' = _generate_report(written, d2)
    /\ delivered' = Append(delivered, Event("sessionfinish", NoReport, FALSE, NoPolicy))
    /\ UNCHANGED <<hookCalls, applied>>

\* pytest delivers the terminal summary while it finishes the session
pytest_terminal_summary ==
    /\ runner # "idle"
    /\ NumEvents < MaxEvents
    /\ delivered' = Append(delivered,
                           Event("terminal_summary", NoReport, FALSE, NoPolicy))
    /\ UNCHANGED <<runner, data, written, hookCalls, applied>>

pytest_collection_finish(items) ==
    /\ runner = "running"
    /\ NumEvents < MaxEvents
    /\ data' = set_data(data, "collectedItems", items)
    /\ delivered' = Append(delivered,
                           Event("collection_finish", NoReport, FALSE, NoPolicy))
    /\ UNCHANGED <<runner, written, hookCalls, applied>>

\* AddDuration with the formatted total made from the report's own duration
AddDuration_formats_report(total_duration, duration) ==
    LET total == total_duration.total + duration
    IN  [total |-> total, formatted |-> _format_duration(duration)]

\* lines 197-199: the duration of the report added to the running total
AddDuration(total_duration, duration) ==
    LET total == total_duration.total + duration
    IN  [total |-> total, formatted |-> _format_duration(total)]

\* lines 201-203
TestId(report) ==
    IF report.when # when_call
    THEN report.nodeid \o <<":", ":">> \o report.when
    ELSE report.nodeid

\* lines 212-217: a cell is its class and its content
Cells(test_data) ==
    <<<<"col-result", test_data.result>>,
      <<"col-name", test_data.testId>>,
      <<"col-duration", test_data.duration>>,
      <<"col-links", <<>>>>>>

\* pytest_html_results_table_row: the hook leaves the cells or clears them
pytest_html_results_table_row(cells, cleared) == IF cleared THEN <<>> ELSE cells

\* the handler without its early return
RowDropped_never(cells) == FALSE

\* lines 220-221: if not cells
RowDropped(cells) == cells = <<>>

\* add_test: the data model with the row as the policy has it
add_test(d, test_data, logs, policy) ==
    IF policy.append
    THEN [d EXCEPT !.tests = Append(@,
             [result |-> test_data.result, duration |-> test_data.duration,
              testId |-> test_data.testId, extras |-> test_data.extras,
              resultsTableRow |-> test_data.resultsTableRow, log |-> logs])]
    ELSE d

\* cleared is what the row hook does, policy what add_test does when it is called
pytest_runtest_logreport(report, cleared, policy) ==
    /\ runner = "running"
    /\ NumEvents < MaxEvents
    /\ LET d1 == [data EXCEPT
                     !.totalDuration = AddDuration(@, report.duration)]
           test_data == [result |-> _process_outcome(report),
                         duration |-> _format_duration(report.duration),
                         testId |-> TestId(report),
                         extras |-> <<>>]
           cells == pytest_html_results_table_row(Cells(test_data), cleared)
       IN  IF RowDropped(cells)
           THEN /\ data' = d1
                /\ written' = written
                /\ hookCalls' = [hookCalls EXCEPT !.row = @ + 1]
                /\ delivered' = Append(delivered,
                                       Event("logreport", report, cleared, NoPolicy))
           ELSE LET row == [result |-> test_data.result,
                            duration |-> test_data.duration,
                            testId |-> test_data.testId,
                            extras |-> test_data.extras,
                            resultsTableRow |-> _fix_py(cells)]
                    processed_logs == _process_logs(report)
                    d2 == add_test(d1, row, processed_logs, policy)
                IN  /\ data' = d2
                    /\ written' = IF policy.reportable
                                  THEN _generate_report(written, d2)
                                  ELSE written
                    /\ hookCalls' = [hookCalls EXCEPT !.row = @ + 1,
                                        !.html = @ + 1, !.add_test = @ + 1]
                    /\ delivered' = Append(delivered,
                                           Event("logreport", report, cleared, policy))
    /\ UNCHANGED <<runner, applied>>

Init ==
    /\ runner = "idle"
    /\ delivered = <<>>
    /\ data = InitData
    /\ written = <<>>
    /\ hookCalls = [row |-> 0, html |-> 0, add_test |-> 0]
    /\ applied = NoCall

Next ==
    \/ \E title \in Titles : pytest_sessionstart(title)
    \/ \E summary \in Summaries : pytest_sessionfinish(summary)
    \/ pytest_terminal_summary
    \/ \E items \in {2} : pytest_collection_finish(items)
    \/ \E report \in SessionReports, cleared \in BOOLEAN,
          policy \in AddTestPolicies :
          pytest_runtest_logreport(report, cleared, policy)

\* the session, as the runner drives it
Spec == Init /\ [][Next]_vars

\* one helper function applied to one argument
FnSpec == Init /\ [][FnNext]_vars

-----------------------------------------------------------------------------
(* The claims about the helper functions, under FnSpec. *)

\* a number below 100 as two decimal digits
TwoDigits(n) == <<Digits[(n \div 10) + 1], Digits[(n % 10) + 1]>>

\* C3: for every duration d >= 0 at millisecond resolution, _format_duration(d)
\* is "<round(d*1000)> ms" when d < 1, and otherwise HH:MM:SS with
\* HH = floor(d/3600), MM = floor((d mod 3600)/60) and SS the integer nearest
\* to (d mod 3600) mod 60, each field zero-padded to two digits; 3661.4 gives
\* "01:01:01".
C3_FormatDuration ==
    applied.fn = "_format_duration" =>
        LET d == applied.duration
        IN  /\ d < 1000 => applied.ret = str_int(d) \o <<" ", "m", "s">>
            /\ d >= 1000 =>
                \E h \in 0..MaxHours, m \in 0..59, sec \in 0..60 :
                    /\ h * 3600000 <= d
                    /\ d < (h + 1) * 3600000
                    /\ m * 60000 <= d - h * 3600000
                    /\ d - h * 3600000 < (m + 1) * 60000
                    /\ 2 * (1000 * sec - (d - h * 3600000 - m * 60000)) <= 1000
                    /\ 2 * ((d - h * 3600000 - m * 60000) - 1000 * sec) <= 1000
                    /\ applied.ret = TwoDigits(h) \o <<":">> \o TwoDigits(m)
                                         \o <<":">> \o TwoDigits(sec)
            /\ d = 3661400 =>
                applied.ret = <<"0", "1", ":", "0", "1", ":", "0", "1">>

C3_Witness ==
    /\ applied.fn = "_format_duration"
    /\ applied.duration = 3661400
    /\ applied.ret = <<"0", "1", ":", "0", "1", ":", "0", "1">>

\* the texts between the occurrences of the character sep in s
RECURSIVE Split(_, _)
Split(s, sep) ==
    IF \E i \in DOMAIN s : s[i] = sep
    THEN LET i == CHOOSE j \in DOMAIN s :
                      s[j] = sep /\ \A k \in 1..(j - 1) : s[k] # sep
         IN  <<SubSeq(s, 1, i - 1)>> \o Split(SubSeq(s, i + 1, Len(s)), sep)
    ELSE <<s>>

\* the number a text of decimal digits writes
RECURSIVE ParseInt(_)
ParseInt(s) ==
    IF s = <<>> THEN 0
    ELSE 10 * ParseInt(SubSeq(s, 1, Len(s) - 1)) + (IndexIn(Digits, s[Len(s)]) - 1)

\* C10: for every duration d >= 1 at millisecond resolution, the minutes field
\* and the seconds field of _format_duration(d) are each between 00 and 59.
C10_ValidClockReading ==
    (applied.fn = "_format_duration" /\ applied.duration >= 1000) =>
        LET fields == Split(applied.ret, ":")
        IN  /\ Len(fields) = 3
            /\ ParseInt(fields[2]) \in 0..59
            /\ ParseInt(fields[3]) \in 0..59

\* C4: _process_outcome gives "Error" for a failed setup or teardown, also with
\* wasxfail; otherwise with wasxfail "XPassed" for passed or failed and
\* "XFailed" for skipped; otherwise the outcome with its first letter
\* capitalized.
C4_ProcessOutcome ==
    applied.fn = "_process_outcome" =>
        LET report == applied.report
            Capitalized ==
                CASE report.outcome = passed -> <<"P", "a", "s", "s", "e", "d">>
                  [] report.outcome = failed -> <<"F", "a", "i", "l", "e", "d">>
                  [] report.outcome = skipped ->
                         <<"S", "k", "i", "p", "p", "e", "d">>
                  [] report.outcome = rerun -> <<"R", "e", "r", "u", "n">>
        IN  applied.ret =
                IF report.when # when_call /\ report.outcome = failed
                THEN <<"E", "r", "r", "o", "r">>
                ELSE IF report.wasxfail /\ report.outcome \in {passed, failed}
                THEN <<"X", "P", "a", "s", "s", "e", "d">>
                ELSE IF report.wasxfail /\ report.outcome = skipped
                THEN <<"X", "F", "a", "i", "l", "e", "d">>
                ELSE Capitalized

C4_Witness ==
    /\ applied.fn = "_process_outcome"
    /\ applied.report.when = when_teardown
    /\ applied.report.outcome = failed
    /\ applied.report.wasxfail
    /\ applied.ret = <<"E", "r", "r", "o", "r">>

\* the last n characters of s, all of s when it has fewer
Trailing(s, n) == IF Len(s) <= n THEN s ELSE SubSeq(s, Len(s) - n + 1, Len(s))

\* C5: for every test id, extra index, test index, extension and maximum length
\* N >= 0, _asset_filename returns the full name sanitize(test_id) "_"
\* extra_index "_" test_index "." extension when it has at most N characters,
\* and otherwise its trailing N characters; the result is never longer than N.
C5_AssetFilename ==
    applied.fn = "_asset_filename" =>
        LET N == applied.self._max_asset_filename_length
            sanitized ==
                [i \in DOMAIN applied.test_id |->
                    IF IsWordChar(applied.test_id[i]) \/ applied.test_id[i] = "."
                    THEN applied.test_id[i] ELSE "_"]
            full == sanitized \o <<"_">> \o str_int(applied.extra_index)
                        \o <<"_">> \o str_int(applied.test_index) \o <<".">>
                        \o applied.file_extension
        IN  /\ applied.ret = Trailing(full, N)
            /\ Len(applied.ret) <= N

\* C6: _generate_environment returns a mapping with the same keys, where the
\* value of a key that some pattern matches from its start is as many U+2593
\* as the value's string form has characters, and any other value is as it was.
C6_GenerateEnvironment ==
    applied.fn = "_generate_environment" =>
        /\ DOMAIN applied.ret = DOMAIN applied.metadata
        /\ \A key \in DOMAIN applied.metadata :
              LET value == applied.metadata[key]
                  form == IF value.type = "int" THEN str_int(value.v) ELSE value.v
              IN  IF \E i \in DOMAIN applied.redactable_regexes :
                         re_match(applied.redactable_regexes[i], key)
                  THEN /\ applied.ret[key].type = "str"
                       /\ Len(applied.ret[key].v) = Len(form)
                       /\ \A j \in DOMAIN applied.ret[key].v :
                             applied.ret[key].v[j] = "U+2593"
                  ELSE applied.ret[key] = value

C6_Witness ==
    /\ applied.fn = "_generate_environment"
    /\ Len(applied.redactable_regexes) = 2
    /\ ~re_match(applied.redactable_regexes[1], <<"K", "E", "Y">>)
    /\ <<"K", "E", "Y">> \in DOMAIN applied.ret
    /\ applied.ret[<<"K", "E", "Y">>] = [type |-> "str", v |-> <<"U+2593", "U+2593", "U+2593", "U+2593">>]
    /\ <<"M", "Y", "_", "K", "E", "Y">> \in DOMAIN applied.ret
    /\ applied.ret[<<"M", "Y", "_", "K", "E", "Y">>] = [type |-> "int", v |-> 4021]

\* s with every "<" written "&lt;" and every ">" written "&gt;"
EscapeAngle(s) ==
    Flatten([i \in DOMAIN s |->
                CASE s[i] = "<" -> <<"&", "l", "t", ";">>
                  [] s[i] = ">" -> <<"&", "g", "t", ";">>
                  [] OTHER -> <<s[i]>>])

NonBlank(entry) == entry # <<>>

\* what C9 says of _process_logs, given the entry that a non-empty
\* longreprtext is to make: the result is not empty; that entry comes first;
\* the sections follow in their order (one non-blank entry each, holding the
\* section's header and ending with its content) only when the outcome is not
\* rerun; the result is the single placeholder exactly when longreprtext is
\* empty and the outcome is rerun or there is no section; and the placeholder
\* never comes with another entry.
ProcessLogsShape(first) ==
    LET report == applied.report
        ret == applied.ret
        rest == IF report.longreprtext # <<>> THEN Tail(ret) ELSE ret
        shown == SelectSeq(rest, NonBlank)
        nothing == /\ report.longreprtext = <<>>
                   /\ report.outcome = rerun \/ report.sections = <<>>
    IN  /\ ret # <<>>
        /\ report.longreprtext # <<>> => ret[1] = first
        /\ ~nothing =>
              IF report.outcome # rerun
              THEN /\ Len(shown) = Len(report.sections)
                   /\ \A i \in DOMAIN shown :
                         /\ Contains(report.sections[i][1], shown[i])
                         /\ Trailing(shown[i], Len(report.sections[i][2]) + 1)
                                = <<"\n">> \o report.sections[i][2]
              ELSE rest = <<>>
        /\ (ret = <<NoLogOutput>>) <=> nothing
        /\ (\E i \in DOMAIN ret : ret[i] = NoLogOutput) => Len(ret) = 1

\* C9 as stated: the escaped longreprtext is the first entry.
C9_ProcessLogs_Original ==
    applied.fn = "_process_logs" =>
        ProcessLogsShape(EscapeAngle(applied.report.longreprtext))

\* C9 as amended: the escaped longreprtext followed by a newline is the first
\* entry; the rest of the claim as stated.
C9_ProcessLogs ==
    applied.fn = "_process_logs" =>
        ProcessLogsShape(EscapeAngle(applied.report.longreprtext) \o <<"\n">>)

C9_Witness ==
    /\ applied.fn = "_process_logs"
    /\ applied.report.longreprtext = <<"a", "<", "b", ">">>
    /\ applied.report.outcome = failed
    /\ Len(applied.report.sections) = 2
    /\ applied.report.sections[1] # applied.report.sections[2]
    /\ applied.ret[1] = <<"a", "&", "l", "t", ";", "b", "&", "g", "t", ";", "\n">>
    /\ Len(applied.ret) > 3

-----------------------------------------------------------------------------
(* The claims about the session, under Spec. *)

\* a step of a handler: it delivers one more event
Delivers == Len(delivered') = Len(delivered) + 1

Last(seq) == seq[Len(seq)]

LogReports == {i \in DOMAIN delivered : delivered[i].event = "logreport"}

\* C1: runningState only moves NotStarted -> Started -> Finished:
\* pytest_sessionstart takes it from NotStarted to Started,
\* pytest_sessionfinish from Started to Finished, and no other handler
\* changes it.
C1_RunningState ==
    /\ [](data.runningState \in {"NotStarted", "Started", "Finished"})
    /\ [][Delivers =>
            LET event == Last(delivered').event
            IN  /\ event = "sessionstart" =>
                      /\ data.runningState = "NotStarted"
                      /\ data'.runningState = "Started"
                /\ event = "sessionfinish" =>
                      /\ data.runningState = "Started"
                      /\ data'.runningState = "Finished"
                /\ event \notin {"sessionstart", "sessionfinish"} =>
                      data'.runningState = data.runningState]_vars

C1_Witness ==
    /\ runner = "done"
    /\ data.runningState = "Finished"
    /\ LogReports # {}
    /\ \E i \in DOMAIN delivered : delivered[i].event = "collection_finish"
    /\ \E i \in DOMAIN delivered : delivered[i].event = "terminal_summary"

\* C2: a per-test-report event whose row hook leaves the cell list empty
\* calls neither add_test nor the pytest_html_results_table_html hook, appends
\* no row to the data model and does not write the report.
C2_RowSuppression ==
    [][(Delivers /\ Last(delivered').event = "logreport"
            /\ Last(delivered').cleared) =>
          /\ hookCalls'.row = hookCalls.row + 1
          /\ hookCalls'.add_test = hookCalls.add_test
          /\ hookCalls'.html = hookCalls.html
          /\ data'.tests = data.tests
          /\ written' = written]_vars

C2_Witness ==
    /\ delivered # <<>>
    /\ Last(delivered).event = "logreport"
    /\ Last(delivered).cleared
    /\ hookCalls.row = hookCalls.add_test + 1
    /\ Len(data.tests) = 1

\* C7: the report is written once at session start, with runningState
\* Started, once at session finish, with runningState Finished, at a
\* per-test-report event exactly when its row was not suppressed and add_test
\* returned true, and never at a collection-finish or terminal-summary event;
\* what is written is the data model as the handler leaves it, so once the
\* session has finished the last report written has runningState Finished
\* and every row of the data model.
C7_ReportWritten ==
    /\ [][Delivers =>
            LET e == Last(delivered')
            IN  /\ e.event = "sessionstart" =>
                      /\ written' = Append(written, _render_html(data'))
                      /\ Last(written').test_data.runningState = "Started"
                /\ e.event = "sessionfinish" =>
                      /\ written' = Append(written, _render_html(data'))
                      /\ Last(written').test_data.runningState = "Finished"
                /\ e.event = "logreport" =>
                      IF ~e.cleared /\ e.policy.reportable
                      THEN written' = Append(written, _render_html(data'))
                      ELSE written' = written
                /\ e.event \in {"collection_finish", "terminal_summary"} =>
                      written' = written]_vars
    /\ [](runner = "done" =>
            /\ written # <<>>
            /\ Last(written).test_data.runningState = "Finished"
            /\ Last(written).test_data.tests = data.tests)

C7_Witness ==
    /\ runner = "done"
    /\ Len(written) = 3
    /\ Len(data.tests) = 2
    /\ \E i \in LogReports :
          delivered[i].policy.append /\ ~delivered[i].policy.reportable
    /\ \E i \in LogReports :
          delivered[i].policy.append /\ delivered[i].policy.reportable

\* the sum of the durations of the per-test-report events among events
RECURSIVE SumDurations(_)
SumDurations(events) ==
    IF events = <<>> THEN 0
    ELSE (IF Head(events).event = "logreport" THEN Head(events).report.duration
          ELSE 0) + SumDurations(Tail(events))

\* C8: totalDuration.total is its initial value plus the durations of every
\* per-test-report event delivered, suppressed or not reportable as well; it
\* never decreases; and after each such event totalDuration.formatted is
\* _format_duration(totalDuration.total).
C8_TotalDuration ==
    /\ [](/\ data.totalDuration.total
                = InitData.totalDuration.total + SumDurations(delivered)
          /\ LogReports # {} =>
                data.totalDuration.formatted
                    = _format_duration(data.totalDuration.total))
    /\ [][data'.totalDuration.total >= data.totalDuration.total]_vars

C8_Witness ==
    /\ \E i \in LogReports : delivered[i].cleared /\ delivered[i].report.duration > 0
    /\ \E i \in LogReports :
          /\ ~delivered[i].cleared
          /\ ~delivered[i].policy.reportable
          /\ delivered[i].report.duration > 0
    /\ data.totalDuration.total = 65500
    /\ data.totalDuration.formatted = <<"0", "0", ":", "0", "1", ":", "0", "6">>

=============================================================================
